---- MODULE Spec2Model ----
(***************************************************************************)
(* State-machine model of the snake game in src/src/lib.rs: the toroidal   *)
(* grid arithmetic, the Player (head, body, direction), the Food and the   *)
(* GameState event handlers update() and key_down_event().                 *)
(*                                                                         *)
(* Time.  The program only ever observes the Duration                      *)
(* Instant::now() - last_update.  The model keeps that Duration, in        *)
(* milliseconds, as of the most recent update() call (elapsed); every      *)
(* update() call receives the time dt that has passed since the previous   *)
(* update() call as an input.  A handler runs at one instant: the two      *)
(* reads of Instant::now() in update() return the same time.               *)
(*                                                                         *)
(* Arithmetic.  Coordinates are i16; every sum the model forms stays       *)
(* within -MaxV - MaxW .. MaxV + 2 * MaxW and 0 .. 2 * GRID_SIZE, far from *)
(* the i16 limits, so integers are not truncated.                          *)
(***************************************************************************)
EXTENDS Integers, Sequences, FiniteSets, TLC

\* ----- program constants ------------------------------------------------
GRID_SIZE_X == 25
GRID_SIZE_Y == 25
FRAMES_PER_SECOND == 8
MS_PER_FRAME == 1000 \div FRAMES_PER_SECOND

\* ----- bounds of the model ----------------------------------------------
\* in a running game update() moves the player only while the body is
\* shorter than MaxBody
MaxBody == 4
\* the host polls update() either PollMs or a whole frame after the last poll
PollMs == 100
\* the cells the random source is sampled at
RandomSamples == { [x |-> 7, y |-> 12], [x |-> 8, y |-> 12] }
\* arguments of modulus_signed explored by SpecWrap
MaxV == 30
MaxW == 6

Delays == {PollMs, MS_PER_FRAME}

Directions == {"Up", "Down", "Left", "Right"}
\* the keys pressed: for every direction one of its two keys, and one key
\* that stands for no direction
KeyCodes == {"Up", "S", "Left", "D", "Space"}

VARIABLES
  head, body, direction, collision, last_update_direction,  \* Player
  food,          \* Food.position
  game_over,     \* GameState.game_over
  elapsed,       \* Instant::now() - last_update at the latest update() call
  since_accept,  \* history: ms from the latest update() call that got past
                 \* the frame gate (or from construction) to the latest call
  since_move,    \* history: ms from the latest update() call that moved the
                 \* player to the latest call; -1 before the first move
  wv, ww, wr     \* SpecWrap: value, modulus and results of modulus_signed

player == <<head, body, direction, collision, last_update_direction>>
vars == <<head, body, direction, collision, last_update_direction,
          food, game_over, elapsed, since_accept, since_move, wv, ww, wr>>
wrapvars == <<wv, ww, wr>>

\* ----- pure functions ---------------------------------------------------
\* Rust's % on signed integers: the remainder truncated towards zero
Rem(a, n) == IF a >= 0 THEN a % n ELSE 0 - ((0 - a) % n)

\* mutant: the remainder is not renormalised
modulus_signed_m(self, n) == Rem(self, n)


modulus_signed(self, n) == Rem(Rem(self, n) + n, n)

inverse(d) ==
  CASE d = "Up" -> "Down"
    [] d = "Down" -> "Up"
    [] d = "Left" -> "Right"
    [] d = "Right" -> "Left"

\* Some(d) is modelled by d, None by "None"
from_keycode(key) ==
  CASE key \in {"Up", "W"} -> "Up"
    [] key \in {"Down", "S"} -> "Down"
    [] key \in {"Left", "A"} -> "Left"
    [] key \in {"Right", "D"} -> "Right"
    [] OTHER -> "None"

GridPosition(px, py) == [x |-> px, y |-> py]

\* the outcomes of GridPosition::random(max_x, max_y) the model explores
random(max_x, max_y) ==
  { p \in RandomSamples : p.x \in 0..(max_x - 1) /\ p.y \in 0..(max_y - 1) }

\* mutant: Up and Down are exchanged
new_from_move_m(position, d) ==
  CASE d = "Up" -> GridPosition(position.x, modulus_signed(position.y + 1, GRID_SIZE_Y))
    [] d = "Down" -> GridPosition(position.x, modulus_signed(position.y - 1, GRID_SIZE_Y))
    [] d = "Left" -> GridPosition(modulus_signed(position.x - 1, GRID_SIZE_X), position.y)
    [] d = "Right" -> GridPosition(modulus_signed(position.x + 1, GRID_SIZE_X), position.y)

\* mutant: the moved coordinate is not wrapped
new_from_move_nowrap(position, d) ==
  CASE d = "Up" -> GridPosition(position.x, position.y - 1)
    [] d = "Down" -> GridPosition(position.x, position.y + 1)
    [] d = "Left" -> GridPosition(position.x - 1, position.y)
    [] d = "Right" -> GridPosition(position.x + 1, position.y)


new_from_move(position, d) ==
  CASE d = "Up" -> GridPosition(position.x, modulus_signed(position.y - 1, GRID_SIZE_Y))
    [] d = "Down" -> GridPosition(position.x, modulus_signed(position.y + 1, GRID_SIZE_Y))
    [] d = "Left" -> GridPosition(modulus_signed(position.x - 1, GRID_SIZE_X), position.y)
    [] d = "Right" -> GridPosition(modulus_signed(position.x + 1, GRID_SIZE_X), position.y)

player_position == GridPosition(GRID_SIZE_X \div 4, GRID_SIZE_Y \div 2)

\* mutant: the player starts without its trailing segment
Player_new_m(position) ==
  [ head |-> position,
    body |-> << >>,
    direction |-> "Right",
    collision |-> "None",
    last_update_direction |-> "Right" ]

\* mutant: the trailing segment is put ahead of the head
Player_new_ahead(position) ==
  [ head |-> position,
    body |-> << GridPosition(position.x + 1, position.y) >>,
    direction |-> "Right",
    collision |-> "None",
    last_update_direction |-> "Right" ]

\* Player::new(position) as the record of the player's fields
Player_new(position) ==
  [ head |-> position,
    body |-> << GridPosition(position.x - 1, position.y) >>,
    direction |-> "Right",
    collision |-> "None",
    last_update_direction |-> "Right" ]

eats(h, f) == h = f

\* mutant: the last segment is not looked at
collides_with_itself_m(h, b) == \E i \in 1..(Len(b) - 1) : h = b[i]


collides_with_itself(h, b) == \E i \in 1..Len(b) : h = b[i]

pop_back(b) == IF Len(b) = 0 THEN b ELSE SubSeq(b, 1, Len(b) - 1)

\* mutant: the food is looked at before the body
update_collision_m(h, b, f) ==
  IF eats(h, f) THEN "Food"
  ELSE IF collides_with_itself(h, b) THEN "Itself"
  ELSE "None"

\* the collision tag Player::update stores, from the new head and the body
\* the old head has been pushed onto
update_collision(h, b, f) ==
  IF collides_with_itself(h, b) THEN "Itself"
  ELSE IF eats(h, f) THEN "Food"
  ELSE "None"

\* mutant: the tail is popped whatever the tag
update_body_m(b, c) == pop_back(b)

\* the body Player::update leaves: popped only when the tag is None
update_body(b, c) == IF c = "None" THEN pop_back(b) ELSE b

\* Player::update(food) as the new record of the player's fields
Player_update(h, b, d, f) ==
  LET new_head == new_from_move(h, d)
      pushed == <<h>> \o b
      c == update_collision(new_head, pushed, f)
  IN [ head |-> new_head,
       body |-> update_body(pushed, c),
       direction |-> d,
       collision |-> c,
       last_update_direction |-> d ]

\* assignment of a Player value to the player's fields
SetPlayer(p) ==
  /\ head' = p.head
  /\ body' = p.body
  /\ direction' = p.direction
  /\ collision' = p.collision
  /\ last_update_direction' = p.last_update_direction

\* mutant: no frame gate
too_early_m(since_last_update) == FALSE

\* the frame gate of update(): less than MS_PER_FRAME since last_update
too_early(since_last_update) == since_last_update < MS_PER_FRAME

\* ----- the game ---------------------------------------------------------
\* GameState::new()
GameState_new ==
  /\ head = Player_new(player_position).head
  /\ body = Player_new(player_position).body
  /\ direction = Player_new(player_position).direction
  /\ collision = Player_new(player_position).collision
  /\ last_update_direction = Player_new(player_position).last_update_direction
  /\ food \in random(GRID_SIZE_X, GRID_SIZE_Y)
  /\ game_over = FALSE
  /\ elapsed = 0
  /\ since_accept = 0
  /\ since_move = -1

Init ==
  /\ GameState_new
  /\ wv = 0 /\ ww = 1 /\ wr = <<>>

Aged(t, dt) == IF t = -1 THEN -1 ELSE t + dt

\* mutant: a dropped update() call puts player.direction back to the
\* direction of the last move
UpdateTooEarly_m(dt) ==
  /\ too_early(elapsed + dt)
  /\ elapsed' = elapsed + dt
  /\ since_accept' = since_accept + dt
  /\ since_move' = Aged(since_move, dt)
  /\ direction' = last_update_direction
  /\ UNCHANGED <<head, body, collision, last_update_direction, food, game_over, wrapvars>>

\* update(): less than a frame since last_update, nothing happens
UpdateTooEarly(dt) ==
  /\ too_early(elapsed + dt)
  /\ elapsed' = elapsed + dt
  /\ since_accept' = since_accept + dt
  /\ since_move' = Aged(since_move, dt)
  /\ UNCHANGED <<player, food, game_over, wrapvars>>

\* mutant: the restart also sets last_update to now
UpdateRestart_m(dt) ==
  /\ ~too_early(elapsed + dt)
  /\ game_over
  /\ SetPlayer(Player_new(player_position))
  /\ food' \in random(GRID_SIZE_X, GRID_SIZE_Y)
  /\ game_over' = FALSE
  /\ elapsed' = 0
  /\ since_accept' = 0
  /\ since_move' = Aged(since_move, dt)
  /\ UNCHANGED wrapvars

\* update(): the game is over; player and food are recreated, last_update
\* is left as it is
UpdateRestart(dt) ==
  /\ ~too_early(elapsed + dt)
  /\ game_over
  /\ SetPlayer(Player_new(player_position))
  /\ food' \in random(GRID_SIZE_X, GRID_SIZE_Y)
  /\ game_over' = FALSE
  /\ elapsed' = elapsed + dt
  /\ since_accept' = 0
  /\ since_move' = Aged(since_move, dt)
  /\ UNCHANGED wrapvars

\* mutant: the food is drawn anew on any collision
UpdateMove_anyfood(dt) ==
  /\ ~too_early(elapsed + dt)
  /\ ~game_over
  /\ game_over \/ Len(body) < MaxBody
  /\ SetPlayer(Player_update(head, body, direction, food))
  /\ food' \in IF collision' # "None" THEN random(GRID_SIZE_X, GRID_SIZE_Y) ELSE {food}
  /\ game_over' = IF collision' = "Itself" THEN TRUE ELSE game_over
  /\ elapsed' = 0
  /\ since_accept' = 0
  /\ since_move' = 0
  /\ UNCHANGED wrapvars

\* mutant: the player is moved whether the game is over or not
UpdateMove_over(dt) ==
  /\ ~too_early(elapsed + dt)
  /\ game_over \/ Len(body) < MaxBody
  /\ SetPlayer(Player_update(head, body, direction, food))
  /\ food' \in IF collision' = "Food" THEN random(GRID_SIZE_X, GRID_SIZE_Y) ELSE {food}
  /\ game_over' = IF collision' = "Itself" THEN TRUE ELSE game_over
  /\ elapsed' = 0
  /\ since_accept' = 0
  /\ since_move' = 0
  /\ UNCHANGED wrapvars

\* mutant: any collision ends the game
UpdateMove_anycollision(dt) ==
  /\ ~too_early(elapsed + dt)
  /\ ~game_over
  /\ game_over \/ Len(body) < MaxBody
  /\ SetPlayer(Player_update(head, body, direction, food))
  /\ food' \in IF collision' = "Food" THEN random(GRID_SIZE_X, GRID_SIZE_Y) ELSE {food}
  /\ game_over' = IF collision' # "None" THEN TRUE ELSE game_over
  /\ elapsed' = 0
  /\ since_accept' = 0
  /\ since_move' = 0
  /\ UNCHANGED wrapvars

\* update(): the player moves, the collision is resolved (the food is drawn
\* anew when eaten, game_over set when the player ran into itself) and
\* last_update becomes now
UpdateMove(dt) ==
  /\ ~too_early(elapsed + dt)
  /\ ~game_over
  /\ game_over \/ Len(body) < MaxBody
  /\ SetPlayer(Player_update(head, body, direction, food))
  /\ food' \in IF collision' = "Food" THEN random(GRID_SIZE_X, GRID_SIZE_Y) ELSE {food}
  /\ game_over' = IF collision' = "Itself" THEN TRUE ELSE game_over
  /\ elapsed' = 0
  /\ since_accept' = 0
  /\ since_move' = 0
  /\ UNCHANGED wrapvars

\* mutant: the reversal guard compares with player.direction
key_down_direction_m(key, d, lud) ==
  LET k == from_keycode(key)
  IN IF k # "None" /\ inverse(k) # d THEN k ELSE d

\* mutant: no reversal guard
key_down_direction_noguard(key, d, lud) ==
  LET k == from_keycode(key)
  IN IF k # "None" THEN k ELSE d

\* the direction key_down_event leaves in player.direction
key_down_direction(key, d, lud) ==
  LET k == from_keycode(key)
  IN IF k # "None" /\ inverse(k) # lud THEN k ELSE d

\* mutant: a key pressed also clears game_over
KeyDown_restart(key) ==
  /\ direction' = key_down_direction(key, direction, last_update_direction)
  /\ game_over' = FALSE
  /\ UNCHANGED <<head, body, collision, last_update_direction, food,
                 elapsed, since_accept, since_move, wrapvars>>


KeyDown(key) ==
  /\ direction' = key_down_direction(key, direction, last_update_direction)
  /\ UNCHANGED <<head, body, collision, last_update_direction, food,
                 game_over, elapsed, since_accept, since_move, wrapvars>>

Next ==
  \/ \E dt \in Delays : UpdateTooEarly(dt)
  \/ \E dt \in Delays : UpdateRestart(dt)
  \/ \E dt \in Delays : UpdateMove(dt)
  \/ \E key \in KeyCodes : KeyDown(key)

Spec == Init /\ [][Next]_vars

\* The event loop calls update() in every iteration and the clock goes on:
\* an update() call that passes the frame gate while the game is over is
\* not put off for ever.
SpecLive == Init /\ [][Next]_vars /\ WF_vars(\E dt \in Delays : UpdateRestart(dt))


\* ----- modulus_signed on its own ----------------------------------------
InitWrap ==
  /\ GameState_new
  /\ wv \in (0 - MaxV)..MaxV
  /\ ww \in 1..MaxW
  /\ wr = <<>>

\* wr becomes << wv.modulus_signed(ww), (wv + ww).modulus_signed(ww) >>
WrapApply ==
  /\ wr = <<>>
  /\ wr' = << modulus_signed(wv, ww), modulus_signed(wv + ww, ww) >>
  /\ UNCHANGED <<player, food, game_over, elapsed, since_accept, since_move, wv, ww>>

NextWrap == WrapApply

SpecWrap == InitWrap /\ [][NextWrap]_vars

\* ----- the steps the properties speak of --------------------------------
UpdateStep(dt) == UpdateTooEarly(dt) \/ UpdateRestart(dt) \/ UpdateMove(dt)
AnyMoveStep == \E dt \in Delays : UpdateMove(dt)
AnyRestartStep == \E dt \in Delays : UpdateRestart(dt)

\* the cell one step from p in direction d on the 25 x 25 torus
StepTo(p, d) ==
  CASE d = "Up" -> [x |-> p.x, y |-> (p.y + 24) % 25]
    [] d = "Down" -> [x |-> p.x, y |-> (p.y + 1) % 25]
    [] d = "Left" -> [x |-> (p.x + 24) % 25, y |-> p.y]
    [] d = "Right" -> [x |-> (p.x + 1) % 25, y |-> p.y]

Cells(b) == { b[i] : i \in 1..Len(b) }
InGrid(p) == p.x \in 0..24 /\ p.y \in 0..24
Opposite == { <<"Up", "Down">>, <<"Down", "Up">>, <<"Left", "Right">>, <<"Right", "Left">> }
\* the direction every direction key stands for
Intent ==
  [ key \in {"Up", "W", "Down", "S", "Left", "A", "Right", "D"} |->
      CASE key \in {"Up", "W"} -> "Up"
        [] key \in {"Down", "S"} -> "Down"
        [] key \in {"Left", "A"} -> "Left"
        [] key \in {"Right", "D"} -> "Right" ]
\* the direction keys that are pressed
DirectionKeys == KeyCodes \cap DOMAIN Intent

\* C1: a movement step whose new head cell is the cell of a segment of the
\* body with the old head pushed and the tail not yet trimmed has the outcome
\* Itself, also when the food lies on that cell.
C1_SelfCollisionWins ==
  [][ (AnyMoveStep /\ StepTo(head, direction) \in Cells(<<head>> \o body))
        => collision' = "Itself" ]_vars

\* the head has run into the tail cell and the food lies on that cell
C1_Witness ==
  /\ collision = "Itself"
  /\ game_over
  /\ food = head
  /\ head = body[Len(body)]

\* C2: a direction key that is the inverse of last_update_direction leaves
\* player.direction as it is; any other direction key sets it, whether the
\* game is running or over.  (A step that changes head or elapsed is an
\* update(), no key_down_event.)
C2_ReversalGuard ==
  [][ \/ ~UNCHANGED <<head, elapsed>>
      \/ \A key \in DirectionKeys :
            \/ IF <<Intent[key], last_update_direction>> \in Opposite
                 THEN direction' = direction
                 ELSE direction' = Intent[key]
            \/ ~KeyDown(key) ]_vars

\* a key has been accepted while the game is over
C2_Witness == game_over /\ direction # last_update_direction

\* C3: a movement step with outcome Food lengthens the body by one, one with
\* outcome None keeps its length; the length is never below 1 and decreases
\* only in a restart.
C3_Growth ==
  [][ /\ AnyMoveStep =>
           /\ collision' = "Food" => Len(body') = Len(body) + 1
           /\ collision' = "None" => Len(body') = Len(body)
      /\ ~AnyRestartStep => Len(body') >= Len(body)
      /\ Len(body') >= 1 ]_vars

\* the player has eaten twice
C3_Witness == collision = "Food" /\ Len(body) = 3

\* C4: an update() call less than MS_PER_FRAME after last_update changes
\* nothing of the player, the food, game_over or last_update; and a
\* movement step never comes less than MS_PER_FRAME after the previous one.
C4_FrameGate ==
  [][ \A dt \in Delays :
        /\ (elapsed + dt < 125 /\ UpdateStep(dt)) =>
              /\ UNCHANGED <<head, body, direction, last_update_direction,
                             collision, food, game_over>>
              /\ elapsed' = elapsed + dt
        /\ (UpdateMove(dt) /\ since_move # -1) => since_move + dt >= 125 ]_vars

\* an update() call after a movement step has been dropped
C4_Witness == since_move # -1 /\ since_move > 0 /\ since_move < 125

\* C5: when game_over is set, an update() call that passes the frame gate
\* recreates player and food and clears game_over, and does not move.
C5_Restart ==
  [][ \A dt \in Delays :
        (game_over /\ elapsed + dt >= 125 /\ UpdateStep(dt)) =>
           /\ head' = [x |-> 6, y |-> 12]
           /\ body' = << [x |-> 5, y |-> 12] >>
           /\ direction' = "Right"
           /\ last_update_direction' = "Right"
           /\ collision' = "None"
           /\ InGrid(food')
           /\ game_over' = FALSE ]_vars

\* the state a restart leaves
C5_Witness ==
  /\ ~game_over
  /\ since_accept = 0
  /\ since_move > 0
  /\ head = [x |-> 6, y |-> 12]
  /\ Len(body) = 1

\* C6: modulus_signed(v, W) lies in 0..W-1, is the same for v + W, is W - 1
\* for v = -1 and 0 for v = W.
C6_Wrap ==
  wr # <<>> =>
    /\ wr[1] \in 0..(ww - 1)
    /\ wr[2] = wr[1]
    /\ wv = -1 => wr[1] = ww - 1
    /\ wv = ww => wr[1] = 0

\* the function has been applied to a negative value no multiple of W
C6_Witness == wr # <<>> /\ wv < 0 /\ wr[1] > 0

\* C7: a movement step puts the head one cell further in player.direction
\* on the torus; the body becomes the old head followed by the old body,
\* without its last segment when the outcome is None, whole when it is Food.
C7_MoveOneStep ==
  [][ AnyMoveStep =>
        /\ head' = StepTo(head, direction)
        /\ collision' = "None" =>
              body' = <<head>> \o SubSeq(body, 1, Len(body) - 1)
        /\ collision' = "Food" => body' = <<head>> \o body ]_vars

\* the scenario of the specification: food eaten at (7,12)
C7_Witness ==
  /\ head = [x |-> 7, y |-> 12]
  /\ body = << [x |-> 6, y |-> 12], [x |-> 5, y |-> 12] >>
  /\ collision = "Food"

\* C8: head, body segments and food are always inside the 25 x 25 grid.
C8_InsideGrid ==
  /\ InGrid(head)
  /\ \A i \in 1..Len(body) : InGrid(body[i])
  /\ InGrid(food)

\* the head has crossed the upper edge
C8_Witness == head.y = 24 /\ body[1].y = 0

\* C9 as stated: between operations the head is on no body segment, whether
\* the game is running or over.
C9_Original == head \notin Cells(body)

\* C9, amended: while the game is not over the head is on no body segment.
C9_HeadOffBodyRunning == ~game_over => head \notin Cells(body)

\* a running game with a body long enough to be run into
C9_Witness == ~game_over /\ Len(body) = 3 /\ collision = "None"

\* C10 as stated: last_update is the time of the latest update() call that
\* passed the frame gate, movement or restart.
C10_Original == elapsed = since_accept

\* C10, amended: last_update is the time of the latest movement step (of
\* construction before the first one); a restart leaves it alone, so the
\* update() call after a restart passes the gate; movement steps are at
\* least MS_PER_FRAME apart.
C10_LastUpdateIsLastMove ==
  /\ [](IF since_move = -1 THEN elapsed = since_accept ELSE elapsed = since_move)
  /\ [][ /\ AnyRestartStep => elapsed' >= 125
         /\ \A dt \in Delays :
              (UpdateMove(dt) /\ since_move # -1) => since_move + dt >= 125 ]_vars

\* a restart has happened and last_update is older than it
C10_Witness == since_accept = 0 /\ elapsed >= 125 /\ since_move >= 125

\* a key_down_event with a direction key the reversal guard lets through
AcceptedKeyStep == \E key \in DirectionKeys : KeyDown(key)

\* C11 as stated, in the case it names: a key accepted while game_over is
\* set (player.direction then differs from the direction of the fatal move)
\* stays in player.direction, but for a later accepted key, until a
\* movement step uses it.
C11_Original ==
  [][ (game_over /\ direction # last_update_direction /\ direction' # direction)
        => AcceptedKeyStep ]_vars

\* C11, amended: a movement step moves in the direction the latest accepted
\* key set (the direction of the move before if there was none) and no
\* update() call changes player.direction, but for the restart, which sets
\* it to Right and so drops a key accepted while game_over was set.
C11_IntentReachesMove ==
  [][ /\ direction' # direction => (AcceptedKeyStep \/ AnyRestartStep)
      /\ AnyMoveStep =>
           /\ head' = StepTo(head, direction)
           /\ last_update_direction' = direction
           /\ direction' = direction
      /\ AnyRestartStep => direction' = "Right" ]_vars

\* a key was accepted, an update() call was dropped and the key is still
\* waiting for its move
C11_Witness ==
  /\ ~game_over
  /\ direction # last_update_direction
  /\ elapsed > 0 /\ elapsed < 125

\* C12: player.direction is never the inverse of last_update_direction, and
\* a movement step never goes in the inverse of the direction of the
\* movement step before it.
C12_NoReversal ==
  /\ [](<<direction, last_update_direction>> \notin Opposite)
  /\ [][ AnyMoveStep =>
           <<last_update_direction', last_update_direction>> \notin Opposite ]_vars

\* several keys were pressed since the last move: the snake, having moved
\* Up, was turned to the side
C12_Witness ==
  /\ last_update_direction = "Up"
  /\ direction \in {"Left", "Right"}
  /\ Len(body) >= 2

\* C13: a movement step with outcome Itself pops the tail as one with
\* outcome None does, so the body is as long after it as before; the tail
\* is kept only when the outcome is Food.
C13_FatalMoveTrimsTail ==
  [][ AnyMoveStep =>
        /\ collision' = "Itself" =>
              body' = <<head>> \o SubSeq(body, 1, Len(body) - 1)
        /\ Len(body') = Len(body) + 1 => collision' = "Food" ]_vars

\* C14: on an update() call that moves the player game_over becomes true
\* exactly when the outcome is Itself, and the food then stays where it is;
\* the food changes place only on a move with outcome Food or on a restart.
C14_CollisionResolution ==
  [][ /\ AnyMoveStep =>
           /\ game_over' = (collision' = "Itself")
           /\ collision' = "Itself" => food' = food
           /\ collision' = "None" => food' = food
      /\ food' # food =>
           \/ AnyMoveStep /\ collision' = "Food"
           \/ AnyRestartStep ]_vars

\* the player has run into itself away from the food
C14_Witness == game_over /\ collision = "Itself" /\ food # head

\* C15: when update() keeps being called as time goes on, a game that is
\* over is running again later; and the player is not moved while the game
\* is over.
C15_RestartLiveness ==
  /\ game_over ~> ~game_over
  /\ [][ game_over => ~AnyMoveStep ]_vars

\* the game is over and update() calls are being dropped
C15_Witness == game_over /\ elapsed > 0 /\ elapsed < 125 /\ since_accept > 0

\* C16: a movement step has the outcome Itself only when the body had at
\* least 3 segments before it; so the game is never over with fewer than 2
\* foods eaten since the start or the last restart.
C16_NoCollisionWhenShort ==
  /\ [][ (AnyMoveStep /\ collision' = "Itself") => Len(body) >= 3 ]_vars
  /\ [](game_over => Len(body) >= 3)

\* the player, 3 segments long, has run into itself
C16_Witness == collision = "Itself" /\ Len(body) = 4

\* two cells next to each other on the 25 x 25 torus: one step apart on one
\* axis, equal on the other
Adjacent(p, q) ==
  \/ p.y = q.y /\ (p.x - q.x) % 25 \in {1, 24}
  \/ p.x = q.x /\ (p.y - q.y) % 25 \in {1, 24}

\* C17: head, body[1], ..., body[last] is a chain of cells each next to the
\* one before it on the torus, and body[1] lies one step against
\* last_update_direction from the head.
C17_Contiguous ==
  /\ Len(body) >= 1
  /\ Adjacent(head, body[1])
  /\ \A i \in 1..(Len(body) - 1) : Adjacent(body[i], body[i + 1])
  /\ head = StepTo(body[1], last_update_direction)

\* a body of 3 segments that lies across the right edge of the grid
C17_Witness == Len(body) = 3 /\ head.x = 0 /\ body[1].x = 24

\* C18: while the game is not over, the head and the body segments lie on
\* cells that are all different.
C18_DistinctCells ==
  ~game_over =>
    LET snake == <<head>> \o body
    IN \A i \in 1..Len(snake) : \A j \in 1..Len(snake) :
         i # j => snake[i] # snake[j]

\* a running game with the food under a body of 3 segments
C18_Witness == ~game_over /\ Len(body) = 3 /\ food \in Cells(body)

\* C19: between operations game_over is set exactly when the stored
\* collision tag is Itself; every movement step computes the tag anew from
\* the new head, the pushed body and the food, and the restart clears it.
C19_TagMatchesGameOver ==
  /\ [](game_over <=> collision = "Itself")
  /\ [][ /\ AnyMoveStep =>
              collision' =
                IF StepTo(head, direction) \in Cells(<<head>> \o body) THEN "Itself"
                ELSE IF StepTo(head, direction) = food THEN "Food"
                ELSE "None"
         /\ AnyRestartStep => collision' = "None" ]_vars

\* the tag Food of an earlier move has been replaced by None
C19_Witness == collision = "None" /\ Len(body) = 2 /\ ~game_over

\* C20: a key_down_event, accepted or not, changes nothing but
\* player.direction: every step that is no update() call leaves head, body,
\* last_update_direction, the collision tag, the food, game_over and the
\* time since last_update as they are.
C20_KeyFrame ==
  [][ \/ UNCHANGED <<head, body, last_update_direction, collision, food,
                     game_over, elapsed>>
      \/ \E dt \in Delays : UpdateStep(dt) ]_vars

\* a key was accepted right after the food was eaten
C20_Witness ==
  /\ direction # last_update_direction
  /\ collision = "Food"
  /\ elapsed = 0
====
